---- MODULE Spec2Model ----
(***************************************************************************)
(* Model of hatch_build.py: BuildFrontendHook.initialize and the steps of  *)
(* BuildFrontendHook._run, one action per method.                          *)
(*                                                                         *)
(* Python str values are modelled as sequences of words, so that the       *)
(* substring test ("npm audit fix" in result.stdout, "version" in a str)   *)
(* is a real contiguous-subsequence test.  A text is one line.             *)
(***************************************************************************)
EXTENDS Integers, Sequences, FiniteSets, TLC

VARIABLES
    PACKAGE_MGR,         \* module constant PACKAGE_MGR (build configuration)
    pc,                  \* position of the (single) thread of control
    cwd,                 \* the process's current working directory
    original_directory,  \* local of initialize()
    log_file,            \* self.log_file: "unset", "open" or "closed"
    log,                 \* content of setup.log: sequence of written lines
    exc,                 \* the exception in flight / raised by initialize()
    calls,               \* subprocess.run invocations of this run, in order
    result,              \* local `result` of _run / _check_pkgmgr_installed
    manifest,            \* content of frontend/package.json (token sequence)
    build_dir_exists,    \* self.build_dir.is_dir()
    modules_dir_exists,  \* self.modules_dir.is_dir()
    ran                  \* methods of _run entered in this run, in order

vars == <<PACKAGE_MGR, pc, cwd, original_directory, log_file, log, exc, calls,
          result, manifest, build_dir_exists, modules_dir_exists, ran>>

----------------------------------------------------------------------------
(* Bounds *)

\* longest captured stdout of `install`, in words
MaxOut == 3

----------------------------------------------------------------------------
(* Module constants of hatch_build.py *)

PackageManagers == {"npm", "yarn"}
PACKAGE_NAME == <<"streamlit-javascript">>
STREAMLIT_VERSION == <<"1.42.0">>
PACKAGE_DIR == "/pkg"

\* directories the caller may be in when it calls initialize()
Dirs == {"/home/user", PACKAGE_DIR}

\* the literal tested at line 55 ("npm audit fix", cut in two words so that a
\* text can hold a part of it), and the key tested at line 83
AUDIT_PHRASE == <<"npm audit", "fix">>
VERSION_KEY == <<"version">>

ReturnCodes == {0, 1}

----------------------------------------------------------------------------
(* Python str *)

\* needle in hay  (str.__contains__)
IsSubstring(needle, hay) ==
    \E i \in 0..(Len(hay) - Len(needle)) :
        SubSeq(hay, i + 1, i + Len(needle)) = needle

RECURSIVE SeqsUpTo(_, _)
SeqsUpTo(S, n) ==
    IF n = 0 THEN {<<>>}
    ELSE LET shorter == SeqsUpTo(S, n - 1)
         IN  shorter \cup {Append(s, w) : s \in shorter, w \in S}

OutWords == {"npm audit", "fix"}
Stdouts == SeqsUpTo(OutWords, MaxOut)
Stderrs == {<<>>, AUDIT_PHRASE}

----------------------------------------------------------------------------
(* json.load on package.json                                               *)
(* A document is a sequence of JSON tokens.  The documents considered are  *)
(* at most one level deep with at most one member or element, which is     *)
(* the grammar json_load decides:                                          *)
(*    value ::= atom | { } | { str : atom } | [ ] | [ atom ]               *)

Tok(t) == [t |-> t, v |-> <<>>]
Str(words) == [t |-> "str", v |-> words]
Num(word) == [t |-> "num", v |-> <<word>>]

IsAtom(tok) == tok.t \in {"str", "num", "null", "true"}

\* the Python type json.load gives a JSON atom
PyType(tok) ==
    CASE tok.t = "str"  -> "str"
      [] tok.t = "num"  -> "int"
      [] tok.t = "null" -> "NoneType"
      [] tok.t = "true" -> "bool"

\* Python values: type, text (of a str or int), and the members of a dict
\* (k: key, vt/vs: type and text of the value) or elements of a list (vt/vs)
PyAtom(tok) == [type |-> PyType(tok), s |-> tok.v, items |-> <<>>]
PyNone == [type |-> "NoneType", s |-> <<>>, items |-> <<>>]
PyDict(members) == [type |-> "dict", s |-> <<>>, items |-> members]
PyList(elems) == [type |-> "list", s |-> <<>>, items |-> elems]
Item(k, tok) == [k |-> k, vt |-> PyType(tok), vs |-> tok.v]

\* json.load: the parsed value, or the JSONDecodeError (msg, pos) it raises
json_load(doc) ==
    LET n == Len(doc)
        Err(p, m) == [ok |-> FALSE, pos |-> p, msg |-> m, value |-> PyNone]
        Ok(v) == [ok |-> TRUE, pos |-> n, msg |-> "", value |-> v]
    IN  IF n = 0 THEN Err(0, "Expecting value")
        ELSE IF IsAtom(doc[1]) THEN
            IF n = 1 THEN Ok(PyAtom(doc[1])) ELSE Err(1, "Extra data")
        ELSE IF doc[1].t = "{" THEN
            IF n >= 2 /\ doc[2].t = "}" THEN
                IF n = 2 THEN Ok(PyDict(<<>>)) ELSE Err(2, "Extra data")
            ELSE IF n < 2 \/ doc[2].t # "str" THEN
                Err(1, "Expecting property name enclosed in double quotes")
            ELSE IF n < 3 \/ doc[3].t # ":" THEN
                Err(2, "Expecting ':' delimiter")
            ELSE IF n < 4 \/ ~IsAtom(doc[4]) THEN
                Err(3, "Expecting value")
            ELSE IF n < 5 \/ doc[5].t # "}" THEN
                Err(4, "Expecting ',' delimiter")
            ELSE IF n > 5 THEN Err(5, "Extra data")
            ELSE Ok(PyDict(<<Item(doc[2].v, doc[4])>>))
        ELSE IF doc[1].t = "[" THEN
            IF n >= 2 /\ doc[2].t = "]" THEN
                IF n = 2 THEN Ok(PyList(<<>>)) ELSE Err(2, "Extra data")
            ELSE IF n < 2 \/ ~IsAtom(doc[2]) THEN
                Err(1, "Expecting value")
            ELSE IF n < 3 \/ doc[3].t # "]" THEN
                Err(2, "Expecting ',' delimiter")
            ELSE IF n > 3 THEN Err(3, "Extra data")
            ELSE Ok(PyList(<<Item(<<>>, doc[2])>>))
        ELSE Err(0, "Expecting value")

\* `key in v` for a str key: the answer, or TypeError for a value that is
\* not a container
py_contains(key, v) ==
    CASE v.type = "dict" ->
            [raised |-> FALSE,
             val |-> \E i \in 1..Len(v.items) : v.items[i].k = key]
      [] v.type = "list" ->
            [raised |-> FALSE,
             val |-> \E i \in 1..Len(v.items) :
                        v.items[i].vt = "str" /\ v.items[i].vs = key]
      [] v.type = "str" ->
            [raised |-> FALSE, val |-> IsSubstring(key, v.s)]
      [] OTHER -> [raised |-> TRUE, val |-> FALSE]

\* `v[key]` for a str key that `key in v` found: the member of a dict, or
\* TypeError for a list or a str (their indices must be integers)
py_getitem(v, key) ==
    IF v.type = "dict"
    THEN LET i == CHOOSE j \in 1..Len(v.items) : v.items[j].k = key
         IN  [raised |-> FALSE, vt |-> v.items[i].vt, vs |-> v.items[i].vs]
    ELSE [raised |-> TRUE, vt |-> "NoneType", vs |-> <<>>]

\* contents of frontend/package.json a run may find
ValidManifests ==
    { <<Tok("{"), Str(VERSION_KEY), Tok(":"), Str(STREAMLIT_VERSION), Tok("}")>>,
      <<Tok("{"), Str(VERSION_KEY), Tok(":"), Str(<<"1.0.0">>), Tok("}")>>,
      <<Tok("{"), Str(VERSION_KEY), Tok(":"), Num("1"), Tok("}")>>,
      <<Tok("{"), Tok("}")>>,
      <<Tok("{"), Str(<<"name">>), Tok(":"), Str(PACKAGE_NAME), Tok("}")>>,
      <<Tok("["), Tok("]")>>,
      <<Tok("["), Str(VERSION_KEY), Tok("]")>>,
      <<Str(STREAMLIT_VERSION)>>,
      <<Str(<<"my", "version">>)>>,
      <<Num("42")>>,
      <<Tok("null")>>,
      <<Tok("true")>> }

InvalidManifests ==
    { <<>>,
      <<Tok("{")>>,
      <<Tok("}")>>,
      <<Tok("{"), Str(VERSION_KEY), Str(STREAMLIT_VERSION), Tok("}")>>,
      <<Tok("{"), Str(VERSION_KEY), Tok(":"), Str(STREAMLIT_VERSION)>>,
      <<Tok("{"), Str(VERSION_KEY), Tok(":"), Tok("}")>>,
      <<Num("42"), Num("42")>> }

Manifests == ValidManifests \cup InvalidManifests

----------------------------------------------------------------------------
(* Logging *)

\* text.splitlines(): a text is one line, the empty text has no line
splitlines(text) == IF text = <<>> THEN <<>> ELSE <<text>>

\* _msg_log on an open log: the non-blank lines of msg, each with the indent
msg_log(lg, msg, indent) ==
    LET lines == SelectSeq(splitlines(msg), LAMBDA line : line # <<>>)
    IN  lg \o [i \in 1..Len(lines) |-> [indent |-> indent, text |-> lines[i]]]

RcText(rc) == IF rc = 0 THEN <<"RC:0">> ELSE <<"RC:1">>

\* _msg_run: return code, stdout block, stderr block
msg_run(lg, res, indent) ==
    LET l1 == msg_log(lg, RcText(res.returncode), indent)
        l2 == msg_log(l1, <<"STDOUT:">>, indent)
        l3 == msg_log(l2, res.stdout, indent + 2)
        l4 == msg_log(l3, <<"STDERR:">>, indent)
    IN  msg_log(l4, res.stderr, indent + 2)

----------------------------------------------------------------------------
(* Exceptions and subprocess.run *)

NoExc == [type |-> "none", msg |-> <<>>]
Exc(type, msg) == [type |-> type, msg |-> msg]

\* class BuildErrorException(RuntimeError)
BuildErrorException(msg) == Exc("BuildErrorException", msg)

\* the outcome of one subprocess.run: the executable could not be launched
\* (subprocess.run raises FileNotFoundError), or a CompletedProcess
NotLaunched == [launched |-> FALSE, returncode |-> 1, stdout |-> <<>>, stderr |-> <<>>]
Completed(rc, out, err) ==
    [launched |-> TRUE, returncode |-> rc, stdout |-> out, stderr |-> err]
NoResult == Completed(0, <<>>, <<>>)

Exited(rc) ==
    Completed(rc, IF rc = 0 THEN <<"ok">> ELSE <<>>,
                  IF rc = 0 THEN <<>> ELSE <<"error">>)

\* one subprocess.run invocation: its argument list and how it ended
Call(args, out) ==
    [args |-> args, launched |-> out.launched, returncode |-> out.returncode]

\* node --version, <package manager> --version, corepack enable
ToolOutcomes == {NotLaunched} \cup {Exited(rc) : rc \in ReturnCodes}
\* install: the package manager was launched by its version check already
InstallOutcomes ==
    {Completed(rc, out, err) : rc \in ReturnCodes, out \in Stdouts, err \in Stderrs}
\* audit, run build
RunOutcomes == {Exited(rc) : rc \in ReturnCodes}

----------------------------------------------------------------------------
(* The methods of BuildFrontendHook, as functions of the log and of what   *)
(* the environment answers; each gives the log it leaves and the           *)
(* exception it raises (NoExc when it returns).                            *)

Returns(lg) == [log |-> lg, exc |-> NoExc]
Raises(lg, e) == [log |-> lg, exc |-> e]

\* check_package_json raising the build error for a manifest syntax error
check_package_json_build_error(lg, doc) ==
    LET l1 == msg_log(lg, <<"Checking package.json version...">>, 0)
    IN  IF ~json_load(doc).ok THEN
            Raises(msg_log(l1, <<"Unable to read package.json file - syntax error">>, 0),
                   BuildErrorException(<<"package.json:", json_load(doc).msg>>))
        ELSE Returns(l1)

\* check_package_json with the decode error swallowed (logged only)
check_package_json_swallow(lg, doc) ==
    LET l1 == msg_log(lg, <<"Checking package.json version...">>, 0)
    IN  Returns(msg_log(l1, <<"Unable to read package.json file - syntax error">>, 0))

check_package_json(lg, doc) ==
    LET l1 == msg_log(lg, <<"Checking package.json version...">>, 0)
        parsed == json_load(doc)
        pkg_desc == parsed.value
        has == py_contains(VERSION_KEY, pkg_desc)
        got == py_getitem(pkg_desc, VERSION_KEY)
    IN  IF ~parsed.ok THEN
            Raises(msg_log(l1, <<"Unable to read package.json file - syntax error">>, 0),
                   Exc("JSONDecodeError", <<"package.json:", parsed.msg>>))
        ELSE IF has.raised THEN
            Raises(l1, Exc("TypeError", <<"argument is not iterable">>))
        ELSE IF ~has.val THEN
            Returns(msg_log(l1, <<"WARNING: package.json:version is missing, should be">>
                                \o STREAMLIT_VERSION, 0))
        ELSE IF got.raised THEN
            Raises(l1, Exc("TypeError", <<"indices must be integers">>))
        ELSE IF ~(got.vt = "str" /\ got.vs = STREAMLIT_VERSION) THEN
            Returns(msg_log(l1, <<"WARNING: package.json:version should be">>
                                \o STREAMLIT_VERSION \o <<"not">> \o got.vs, 0))
        ELSE Returns(l1)

check_need_protobuf(lg) ==
    Returns(msg_log(lg, PACKAGE_NAME \o <<"does not use protobuf...">>, 0))

show_msg_if_build_dir_exists(lg, is_dir) ==
    LET l1 == msg_log(lg, <<"Checking if frontend has already been built...">>, 0)
    IN  Returns(IF is_dir THEN msg_log(l1, <<"Found build directory">>, 2) ELSE l1)

show_msg_if_modules_dir_exists(lg, is_dir) ==
    LET l1 == msg_log(lg, <<"Checking if node_modules exists...">>, 0)
    IN  Returns(IF is_dir THEN msg_log(l1, <<"Found node_modules directory">>, 2) ELSE l1)

\* check_node_installed without the return-code test of line 127
check_node_installed_unchecked(lg, out) ==
    LET l1 == msg_log(lg, <<"Checking node is installed...">>, 0)
    IN  IF ~out.launched THEN Raises(l1, Exc("FileNotFoundError", <<"node">>))
        ELSE Returns(msg_run(l1, out, 2))

check_node_installed(lg, out) ==
    LET l1 == msg_log(lg, <<"Checking node is installed...">>, 0)
    IN  IF ~out.launched THEN
            Raises(l1, Exc("FileNotFoundError", <<"node">>))
        ELSE IF out.returncode # 0 THEN
            Raises(msg_run(l1, out, 2),
                   BuildErrorException(<<"Could not find node - it is required for React components">>))
        ELSE Returns(msg_run(l1, out, 2))

\* out: answer to <mgr> --version; cp: answer to corepack enable (yarn only)
check_pkgmgr_installed(lg, mgr, out, cp) ==
    LET l1 == msg_log(lg, <<"Checking", mgr, "is installed...">>, 0)
        l2 == msg_run(l1, out, 2)
        l3 == msg_log(l2, <<"Checking yarn corepack is installed">>, 0)
        l4 == msg_run(l3, cp, 2)
        \* `result` at line 165: rebound by line 148 when the manager is yarn
        res == IF mgr = "yarn" THEN cp ELSE out
        lend == IF mgr = "yarn" THEN l4 ELSE l2
    IN  IF ~out.launched THEN
            Raises(l1, Exc("FileNotFoundError", <<mgr>>))
        ELSE IF mgr = "yarn" /\ ~cp.launched THEN
            Raises(l3, Exc("FileNotFoundError", <<"corepack">>))
        ELSE IF mgr = "yarn" /\ cp.returncode # 0 THEN
            Raises(l4, BuildErrorException(
                <<"Could not find corepack/", mgr, "- it is required to install node packages">>))
        ELSE IF res.returncode # 0 THEN
            Raises(lend, BuildErrorException(
                <<"Could not find", mgr, "- it is required to install node packages">>))
        ELSE Returns(lend)

\* the subprocess.run calls _check_pkgmgr_installed makes, in order
pkgmgr_calls(mgr, out, cp) ==
    IF mgr = "yarn" /\ out.launched
    THEN <<Call(<<mgr, "--version">>, out), Call(<<"corepack", "enable">>, cp)>>
    ELSE <<Call(<<mgr, "--version">>, out)>>

run_install(lg, mgr, out) ==
    Returns(msg_run(msg_log(lg, <<"Running", mgr, "install...">>, 0), out, 2))

\* the test of line 55 made on everything install printed
needs_audit_any_stream(res) ==
    IsSubstring(AUDIT_PHRASE, res.stdout) \/ IsSubstring(AUDIT_PHRASE, res.stderr)

\* line 55: "npm audit fix" in result.stdout
needs_audit(res) == IsSubstring(AUDIT_PHRASE, res.stdout)

run_npm_audit(lg, out) ==
    Returns(msg_run(msg_log(lg, <<"Running npm audit...">>, 0), out, 2))

\* run_build with a check of the build's exit code
run_build_checked(lg, mgr, out) ==
    LET l1 == msg_run(msg_log(lg, <<"Running", mgr, "run build...">>, 0), out, 2)
    IN  IF out.returncode # 0
        THEN Raises(l1, BuildErrorException(<<"Build failed">>))
        ELSE Returns(l1)

run_build(lg, mgr, out) ==
    Returns(msg_run(msg_log(lg, <<"Running", mgr, "run build...">>, 0), out, 2))

check_build_output_ok(lg, is_dir) ==
    LET l1 == msg_log(lg, <<"Checking if frontend was built...">>, 0)
    IN  IF is_dir THEN Returns(msg_log(l1, <<"Found build directory">>, 2))
        ELSE Raises(l1, BuildErrorException(<<"Failed to create output directory">>))

----------------------------------------------------------------------------
(* State machine *)

Init ==
    /\ PACKAGE_MGR \in PackageManagers
    /\ pc = "idle"
    /\ cwd \in Dirs
    /\ original_directory = ""
    /\ log_file = "unset"
    /\ log = <<>>
    /\ exc = NoExc
    /\ calls = <<>>
    /\ result = NoResult
    /\ manifest \in Manifests
    /\ build_dir_exists \in BOOLEAN
    /\ modules_dir_exists \in BOOLEAN
    /\ ran = <<>>

\* the files and the configuration no step of the hook writes
Fixed == <<PACKAGE_MGR, manifest>>

\* assert self.log_file.writable(), first statement of _msg_log
Writable == log_file = "open"
LogFault ==
    IF log_file = "unset"
    THEN Exc("AttributeError", <<"log_file">>)
    ELSE Exc("ValueError", <<"I/O operation on closed file">>)

\* a method of _run at position `name`, whose first statement is a _msg_log:
\* r is what the method does on a writable log; an exception leaves the
\* with block, a return goes on to `next`
Method(name, r, next) ==
    /\ pc = name
    /\ ran' = Append(ran, name)
    /\ IF Writable
       THEN /\ log' = r.log
            /\ exc' = r.exc
            /\ pc' = IF r.exc.type = "none" THEN next ELSE "with_exit"
       ELSE /\ log' = log
            /\ exc' = LogFault
            /\ pc' = "with_exit"

\* initialize(), line 31: the build system calls the hook, once per build
initialize ==
    /\ pc = "idle"
    /\ original_directory' = cwd
    /\ pc' = "chdir"
    /\ UNCHANGED <<Fixed, cwd, log_file, log, exc, calls, result,
                   build_dir_exists, modules_dir_exists, ran>>

\* line 33: os.chdir(PACKAGE_DIR), which may raise OSError
chdir_package_dir ==
    /\ pc = "chdir"
    /\ \/ cwd' = PACKAGE_DIR /\ pc' = "open" /\ exc' = exc
       \/ cwd' = cwd /\ pc' = "finally" /\ exc' = Exc("OSError", <<"chdir">>)
    /\ UNCHANGED <<Fixed, original_directory, log_file, log, calls, result,
                   build_dir_exists, modules_dir_exists, ran>>

\* open_log without `self.log_file = log_file` (line 35)
open_log_unassigned ==
    /\ pc = "open"
    /\ \/ log' = <<>> /\ pc' = "_check_package_json" /\ exc' = exc
       \/ log' = log /\ pc' = "finally" /\ exc' = Exc("OSError", <<"setup.log">>)
    /\ UNCHANGED <<Fixed, cwd, original_directory, log_file, calls, result,
                   build_dir_exists, modules_dir_exists, ran>>

\* lines 34-35: open setup.log for writing (truncating it) and keep the
\* stream in self.log_file; open may raise OSError
open_log ==
    /\ pc = "open"
    /\ \/ log_file' = "open" /\ log' = <<>> /\ pc' = "_check_package_json" /\ exc' = exc
       \/ /\ UNCHANGED <<log_file, log>>
          /\ pc' = "finally"
          /\ exc' = Exc("OSError", <<"setup.log">>)
    /\ UNCHANGED <<Fixed, cwd, original_directory, calls, result,
                   build_dir_exists, modules_dir_exists, ran>>

_check_package_json ==
    /\ Method("_check_package_json", check_package_json(log, manifest),
              "_check_need_protobuf")
    /\ UNCHANGED <<Fixed, cwd, original_directory, log_file, calls, result,
                   build_dir_exists, modules_dir_exists>>

_check_need_protobuf ==
    /\ Method("_check_need_protobuf", check_need_protobuf(log),
              "_show_msg_if_build_dir_exists")
    /\ UNCHANGED <<Fixed, cwd, original_directory, log_file, calls, result,
                   build_dir_exists, modules_dir_exists>>

_show_msg_if_build_dir_exists ==
    /\ Method("_show_msg_if_build_dir_exists",
              show_msg_if_build_dir_exists(log, build_dir_exists),
              "_show_msg_if_modules_dir_exists")
    /\ UNCHANGED <<Fixed, cwd, original_directory, log_file, calls, result,
                   build_dir_exists, modules_dir_exists>>

_show_msg_if_modules_dir_exists ==
    /\ Method("_show_msg_if_modules_dir_exists",
              show_msg_if_modules_dir_exists(log, modules_dir_exists),
              "_check_node_installed")
    /\ UNCHANGED <<Fixed, cwd, original_directory, log_file, calls, result,
                   build_dir_exists, modules_dir_exists>>

_check_node_installed ==
    /\ \E out \in ToolOutcomes :
          /\ Method("_check_node_installed", check_node_installed(log, out),
                    "_check_pkgmgr_installed")
          /\ calls' = IF Writable
                      THEN Append(calls, Call(<<"node", "--version">>, out))
                      ELSE calls
    /\ UNCHANGED <<Fixed, cwd, original_directory, log_file, result,
                   build_dir_exists, modules_dir_exists>>

_check_pkgmgr_installed ==
    /\ \E out \in ToolOutcomes :
       \E cp \in (IF PACKAGE_MGR = "yarn" /\ out.launched
                  THEN ToolOutcomes ELSE {NotLaunched}) :
          /\ Method("_check_pkgmgr_installed",
                    check_pkgmgr_installed(log, PACKAGE_MGR, out, cp),
                    "_run_install")
          /\ calls' = IF Writable THEN calls \o pkgmgr_calls(PACKAGE_MGR, out, cp)
                      ELSE calls
    /\ UNCHANGED <<Fixed, cwd, original_directory, log_file, result,
                   build_dir_exists, modules_dir_exists>>

\* lines 54-55: result = self._run_install(), then the test that decides
\* whether _run_npm_audit is called
_run_install ==
    /\ \E out \in InstallOutcomes :
          /\ Method("_run_install", run_install(log, PACKAGE_MGR, out),
                    IF needs_audit(out) THEN "_run_npm_audit" ELSE "_run_build")
          /\ result' = IF Writable THEN out ELSE result
          /\ calls' = IF Writable
                      THEN Append(calls, Call(<<PACKAGE_MGR, "install">>, out))
                      ELSE calls
    /\ UNCHANGED <<Fixed, cwd, original_directory, log_file, build_dir_exists,
                   modules_dir_exists>>

_run_npm_audit ==
    /\ \E out \in RunOutcomes :
          /\ Method("_run_npm_audit", run_npm_audit(log, out), "_run_build")
          /\ calls' = IF Writable
                      THEN Append(calls, Call(<<PACKAGE_MGR, "audit">>, out))
                      ELSE calls
    /\ UNCHANGED <<Fixed, cwd, original_directory, log_file, result,
                   build_dir_exists, modules_dir_exists>>

\* the build script may create the build directory, leave it, or remove it
_run_build ==
    /\ \E out \in RunOutcomes :
          /\ Method("_run_build", run_build(log, PACKAGE_MGR, out),
                    "_check_build_output_ok")
          /\ calls' = IF Writable
                      THEN Append(calls, Call(<<PACKAGE_MGR, "run", "build">>, out))
                      ELSE calls
    /\ build_dir_exists' \in (IF Writable THEN BOOLEAN ELSE {build_dir_exists})
    /\ UNCHANGED <<Fixed, cwd, original_directory, log_file, result, modules_dir_exists>>

\* last statement of _run: returning and raising both leave the with block
_check_build_output_ok ==
    /\ Method("_check_build_output_ok", check_build_output_ok(log, build_dir_exists),
              "with_exit")
    /\ UNCHANGED <<Fixed, cwd, original_directory, log_file, calls, result,
                   build_dir_exists, modules_dir_exists>>

\* line 34, leaving the with block: the stream is closed
with_exit ==
    /\ pc = "with_exit"
    /\ log_file' = "closed"
    /\ pc' = "finally"
    /\ UNCHANGED <<Fixed, cwd, original_directory, log, exc, calls, result,
                   build_dir_exists, modules_dir_exists, ran>>

\* initialize() without the finally clause
finally_chdir_missing ==
    /\ pc = "finally"
    /\ pc' = IF exc.type = "none" THEN "returned" ELSE "raised"
    /\ UNCHANGED <<Fixed, cwd, original_directory, log_file, log, exc, calls, result,
                   build_dir_exists, modules_dir_exists, ran>>

\* lines 37-38: finally: os.chdir(original_directory); then initialize()
\* returns, or the exception in flight propagates to the caller
finally_chdir ==
    /\ pc = "finally"
    /\ cwd' = original_directory
    /\ pc' = IF exc.type = "none" THEN "returned" ELSE "raised"
    /\ UNCHANGED <<Fixed, original_directory, log_file, log, exc, calls, result,
                   build_dir_exists, modules_dir_exists, ran>>

Next ==
    \/ initialize
    \/ chdir_package_dir
    \/ open_log
    \/ _check_package_json
    \/ _check_need_protobuf
    \/ _show_msg_if_build_dir_exists
    \/ _show_msg_if_modules_dir_exists
    \/ _check_node_installed
    \/ _check_pkgmgr_installed
    \/ _run_install
    \/ _run_npm_audit
    \/ _run_build
    \/ _check_build_output_ok
    \/ with_exit
    \/ finally_chdir

Spec == Init /\ [][Next]_vars

----------------------------------------------------------------------------
(* Properties *)

Terminal == pc \in {"returned", "raised"}
Last(seq) == seq[Len(seq)]
Entered(name) == \E i \in 1..Len(ran) : ran[i] = name
Invoked(args) == \E i \in 1..Len(calls) : calls[i].args = args
Logged(text) == \E i \in 1..Len(log) : log[i].text = text

\* positions inside _run, where the next statement executed is a _msg_log
RunPositions ==
    {"_check_package_json", "_check_need_protobuf", "_show_msg_if_build_dir_exists",
     "_show_msg_if_modules_dir_exists", "_check_node_installed",
     "_check_pkgmgr_installed", "_run_install", "_run_npm_audit", "_run_build",
     "_check_build_output_ok"}

\* C1: whenever initialize() has exited, by returning or by raising any
\* exception (from chdir, from open, or from a step of _run), the working
\* directory is the one observed on entry; and that observation is made
\* before anything changes the working directory.
C1_CwdRestored ==
    /\ Terminal => cwd = original_directory /\ original_directory \in Dirs
    /\ pc = "chdir" => cwd = original_directory

\* a run that started outside PACKAGE_DIR, entered _run (so the directory
\* was changed), failed there, and is back where it started
C1_Witness ==
    /\ pc = "raised"
    /\ Len(ran) > 0
    /\ exc.type = "BuildErrorException"
    /\ original_directory # PACKAGE_DIR
    /\ cwd = original_directory

\* C2: when package.json is not valid JSON, no subprocess is ever invoked,
\* _check_package_json is the only method of _run that is entered, and the
\* run that read the manifest ends raising the JSON parse error.
C2_InvalidManifestAborts ==
    ~json_load(manifest).ok =>
        /\ calls = <<>>
        /\ Len(ran) <= 1
        /\ Entered("_check_package_json") =>
              /\ exc.type = "JSONDecodeError"
              /\ pc \in {"with_exit", "finally", "raised"}

C2_Witness ==
    /\ ~json_load(manifest).ok
    /\ pc = "raised"
    /\ ran = <<"_check_package_json">>
    /\ exc.type = "JSONDecodeError"
    /\ calls = <<>>

\* C4: when node --version exits non-zero, it is the last subprocess of the
\* run (the package manager is never invoked), no later method of _run is
\* entered, and the run ends raising BuildErrorException about node.
NodeFailed ==
    /\ Len(calls) >= 1
    /\ calls[1].args = <<"node", "--version">>
    /\ calls[1].launched
    /\ calls[1].returncode # 0

C4_NodeFailureAborts ==
    NodeFailed =>
        /\ Len(calls) = 1
        /\ Last(ran) = "_check_node_installed"
        /\ exc = BuildErrorException(
                    <<"Could not find node - it is required for React components">>)
        /\ pc \in {"with_exit", "finally", "raised"}

C4_Witness ==
    /\ NodeFailed
    /\ pc = "raised"
    /\ exc.type = "BuildErrorException"
    /\ ~Invoked(<<PACKAGE_MGR, "--version">>)

\* C10: at every position of _run the log stream is open and writable, so no
\* _msg_log ever fails its assertion; the stream is closed only after _run
\* has returned or raised, and the line logged while handling a manifest
\* parse error is written.
C10_LogWritable ==
    /\ pc \in RunPositions => log_file = "open"
    /\ exc.type \notin {"AttributeError", "ValueError", "AssertionError"}
    /\ log_file = "closed" => pc \in {"finally", "returned", "raised"}
    /\ exc.type = "JSONDecodeError" =>
          Logged(<<"Unable to read package.json file - syntax error">>)

\* the parse error has just been raised; the stream is still open and holds
\* the line written by the handler
C10_Witness ==
    /\ pc = "with_exit"
    /\ exc.type = "JSONDecodeError"
    /\ log_file = "open"
    /\ Last(log).text = <<"Unable to read package.json file - syntax error">>

\* C3: for every manifest that parses and whose version is absent or is not
\* STREAMLIT_VERSION (whatever JSON value the manifest is), once
\* _check_package_json has run a warning is in the log, no exception was
\* raised by it, and the run has gone on to the next check.
VersionMatches(doc) ==
    LET v == json_load(doc).value
    IN  /\ v.type = "dict"
        /\ \E i \in 1..Len(v.items) :
              /\ v.items[i].k = VERSION_KEY
              /\ v.items[i].vt = "str"
              /\ v.items[i].vs = STREAMLIT_VERSION

WarningLogged ==
    \E i \in 1..Len(log) :
        /\ Len(log[i].text) > 0
        /\ log[i].text[1] \in {"WARNING: package.json:version is missing, should be",
                               "WARNING: package.json:version should be"}

C3_MismatchOnlyWarns ==
    (json_load(manifest).ok /\ ~VersionMatches(manifest) /\ ran = <<"_check_package_json">>)
        => /\ exc = NoExc
           /\ pc = "_check_need_protobuf"
           /\ WarningLogged

\* C5: when node --version, or the package manager's --version, cannot be
\* launched, the run ends raising BuildErrorException, as for a non-zero exit.
C5_LaunchFailureIsBuildError ==
    (/\ pc = "raised"
     /\ Len(calls) >= 1
     /\ Last(calls).args \in {<<"node", "--version">>, <<PACKAGE_MGR, "--version">>}
     /\ ~Last(calls).launched)
        => exc.type = "BuildErrorException"

\* C6: for npm and for yarn, a package manager --version that exits non-zero
\* ends the run with BuildErrorException and install is never invoked, also
\* when corepack enable then succeeds; a non-zero corepack enable does too.
PkgmgrFailed ==
    \E i \in 1..Len(calls) :
        /\ calls[i].args \in {<<PACKAGE_MGR, "--version">>, <<"corepack", "enable">>}
        /\ calls[i].launched
        /\ calls[i].returncode # 0

C6_PkgmgrFailureAborts ==
    PkgmgrFailed =>
        /\ ~Invoked(<<PACKAGE_MGR, "install">>)
        /\ Last(ran) = "_check_pkgmgr_installed"
        /\ exc.type = "BuildErrorException"
        /\ pc \in {"with_exit", "finally", "raised"}

\* C7: in a run that reached install: audit is invoked only when install's
\* stdout contains "npm audit fix" (stderr does not count) and then exactly
\* once, right after install and before build.
CallIndexes(args) == {i \in 1..Len(calls) : calls[i].args = args}
InstallArgs == <<PACKAGE_MGR, "install">>
AuditArgs == <<PACKAGE_MGR, "audit">>
BuildArgs == <<PACKAGE_MGR, "run", "build">>

C7_AuditIffPhraseInStdout ==
    /\ CallIndexes(AuditArgs) # {} => Invoked(InstallArgs)
    /\ Invoked(InstallArgs) =>
          LET inst == CHOOSE i \in CallIndexes(InstallArgs) : TRUE
          IN  /\ Cardinality(CallIndexes(InstallArgs)) = 1
              /\ IF IsSubstring(AUDIT_PHRASE, result.stdout)
                 THEN /\ CallIndexes(AuditArgs) \subseteq {inst + 1}
                      /\ pc \notin {"_run_install", "_run_npm_audit"} =>
                            CallIndexes(AuditArgs) = {inst + 1}
                      /\ CallIndexes(BuildArgs) \subseteq {inst + 2}
                 ELSE /\ CallIndexes(AuditArgs) = {}
                      /\ pc # "_run_npm_audit"
                      /\ CallIndexes(BuildArgs) \subseteq {inst + 1}

\* install printed the phrase on stdout only; audit ran once, then build
C7_Witness ==
    /\ Terminal
    /\ IsSubstring(AUDIT_PHRASE, result.stdout)
    /\ ~IsSubstring(AUDIT_PHRASE, result.stderr)
    /\ Cardinality(CallIndexes(AuditArgs)) = 1
    /\ Invoked(BuildArgs)

\* C8: once the toolchain checks have passed, install, then (maybe) audit,
\* then build, then the output check all run whatever the exit codes are; no
\* exception is in flight before the output check; and the run returns
\* exactly when the build directory exists after build, raising
\* BuildErrorException("Failed to create output directory") otherwise.
C8_OutcomeIsOutputDir ==
    Entered("_run_install") =>
        /\ pc \in RunPositions => exc = NoExc
        /\ pc \notin RunPositions =>
              /\ Last(ran) = "_check_build_output_ok"
              /\ Last(calls).args = BuildArgs
              /\ Invoked(InstallArgs)
              /\ exc = IF build_dir_exists THEN NoExc
                       ELSE BuildErrorException(<<"Failed to create output directory">>)
        /\ pc = "returned" => build_dir_exists
        /\ pc = "raised" => ~build_dir_exists

\* install and build both exited non-zero, the directory is there: success
C8_Witness ==
    /\ pc = "returned"
    /\ build_dir_exists
    /\ result.returncode # 0
    /\ Last(calls).args = BuildArgs
    /\ Last(calls).returncode # 0

\* C9 as stated: a run that fails for a manifest syntax error, for a tool
\* whose check exits non-zero, or for a missing output directory, raises
\* BuildErrorException in all three cases.
ParseFailure ==
    pc = "raised" /\ ran = <<"_check_package_json">> /\ ~json_load(manifest).ok
ToolchainFailure ==
    /\ pc = "raised"
    /\ Len(calls) >= 1
    /\ Last(ran) \in {"_check_node_installed", "_check_pkgmgr_installed"}
    /\ Last(calls).launched
OutputFailure ==
    pc = "raised" /\ Len(ran) >= 1 /\ Last(ran) = "_check_build_output_ok"

====
